---- MODULE Spec2Model ----
(***************************************************************************)
(* A model of the custom shell: the raw-mode input loop of main.rs with    *)
(* its history recall, the history helpers of helpers.rs, and the          *)
(* `customize` built-in with the configuration record it persists.         *)
(*                                                                         *)
(* A Rust String is a sequence of one-character strings, so String::new()  *)
(* is << >>.  An Option<T> is a sequence of length at most one: << >> is   *)
(* None and <<v>> is Some(v).  The history file is the sequence of its     *)
(* characters.  The arguments of `customize` are whole tokens, which the   *)
(* code only compares and stores, so each is one TLA+ string.              *)
(***************************************************************************)
EXTENDS Integers, Sequences, FiniteSets, TLC

VARIABLES
    commands_list,  \* main.rs: Vec<String>, the in-memory history
    index,          \* main.rs: usize, the history cursor
    input,          \* main.rs: String, the line under construction
    historyFile,    \* the characters of <home>/.mysh_history
    rawMode,        \* whether the terminal is in raw mode
    pc,             \* "read" | "dispatch" | "exited" | "call" (helper calls)
    exitCause,      \* "none" | "escape" | "kill" | "ioerror" | "panic"
    lastOp,         \* the key event or helper call handled last
    ret,            \* the String the last history helper returned
    fault,          \* TRUE once a Vec was indexed out of range
    config,         \* Vec<Configuration>, the in-memory configuration record
    configFile,     \* the contents of <home>/.mysh_config
    out,            \* the messages the last customize command printed
    lastArgs,       \* the arguments of the last customize command
    lastWrite,      \* how the last write of the configuration file ended
    dirs,           \* the directories of the filesystem, as absolute paths
    files,          \* the regular files: absolute path |-> contents
    cwd,            \* the working directory of the process
    lastCall        \* the dispatcher call made last and how it ended

vars == <<commands_list, index, input, historyFile, rawMode, pc, exitCause,
          lastOp, ret, fault, config, configFile, out, lastArgs, lastWrite,
          dirs, files, cwd, lastCall>>

cfgVars == <<config, configFile, out, lastArgs, lastWrite>>
fsVars == <<dirs, files, cwd, lastCall>>

\* The filesystem variables where no built-in touches the filesystem.
FsIdle ==
    /\ dirs = {}
    /\ files = {}
    /\ cwd = << >>
    /\ lastCall = << >>

(***************************************************************************)
(* Bounds                                                                  *)
(***************************************************************************)
MaxHist == 2        \* Enter is accepted while the history is shorter
MaxNavLen == 3      \* longest history the helper-level specification draws

\* The lines the user types: every typed buffer is a prefix of one of them.
TypedLines ==
    { <<"k", "i", "l", "l">>, <<" ">>, <<"x">>, <<"p", "w", "d">> }

\* The entries the helper-level specification fills a history with.
NavEntries == { <<"a">>, <<"b">> }

(***************************************************************************)
(* Strings                                                                 *)
(***************************************************************************)
EmptyString == << >>

IsWhitespace(c) == c \in {" ", "\t", "\n", "\r"}

\* str::trim().is_empty()
TrimIsEmpty(s) == \A i \in 1..Len(s) : IsWhitespace(s[i])

IsPrefix(p, s) == Len(p) <= Len(s) /\ SubSeq(s, 1, Len(p)) = p

RECURSIVE SplitAcc(_, _, _)
SplitAcc(s, cur, acc) ==
    IF s = << >> THEN (IF cur = << >> THEN acc ELSE Append(acc, cur))
    ELSE IF IsWhitespace(Head(s))
         THEN SplitAcc(Tail(s), << >>,
                       IF cur = << >> THEN acc ELSE Append(acc, cur))
         ELSE SplitAcc(Tail(s), Append(cur, Head(s)), acc)

\* A split that keeps the empty pieces between separators, as str::split(' ').
RECURSIVE SplitKeepEmpty(_, _, _)
SplitKeepEmpty(s, cur, acc) ==
    IF s = << >> THEN Append(acc, cur)
    ELSE IF IsWhitespace(Head(s))
         THEN SplitKeepEmpty(Tail(s), << >>, Append(acc, cur))
         ELSE SplitKeepEmpty(Tail(s), Append(cur, Head(s)), acc)

split_whitespace_keep_empty(s) == SplitKeepEmpty(s, << >>, << >>)

\* input.trim().split_whitespace(): the non-empty whitespace-separated tokens
split_whitespace(s) == SplitAcc(s, << >>, << >>)

(***************************************************************************)
(* History helpers (helpers.rs)                                            *)
(***************************************************************************)
\* vec[i] with a 0-based i: the element, or a fault when i is out of range
InRange(vec, i) == 0 <= i /\ i < Len(vec)
At(vec, i) == vec[i + 1]

get_prev_command(command_list, last_index) ==
    LET current_index == last_index IN
    IF current_index = 0
    THEN [ret |-> EmptyString, index |-> last_index, fault |-> FALSE]
    ELSE IF InRange(command_list, current_index - 1)
         THEN [ret |-> At(command_list, current_index - 1),
               index |-> last_index - 1, fault |-> FALSE]
         ELSE [ret |-> EmptyString, index |-> last_index - 1, fault |-> TRUE]

\* The guard compares with len() instead of len() - 1.
get_next_command_off_by_one(commands, idx) ==
    IF commands = << >>
    THEN [ret |-> EmptyString, index |-> idx, fault |-> FALSE]
    ELSE IF idx >= Len(commands)
         THEN [ret |-> EmptyString, index |-> idx, fault |-> FALSE]
         ELSE IF InRange(commands, idx + 1)
              THEN [ret |-> At(commands, idx + 1), index |-> idx + 1,
                    fault |-> FALSE]
              ELSE [ret |-> EmptyString, index |-> idx + 1, fault |-> TRUE]

get_next_command(commands, idx) ==
    IF commands = << >>
    THEN [ret |-> EmptyString, index |-> idx, fault |-> FALSE]
    ELSE IF idx >= Len(commands) - 1
         THEN [ret |-> EmptyString, index |-> idx, fault |-> FALSE]
         ELSE IF InRange(commands, idx + 1)
              THEN [ret |-> At(commands, idx + 1), index |-> idx + 1,
                    fault |-> FALSE]
              ELSE [ret |-> EmptyString, index |-> idx + 1, fault |-> TRUE]

\* The line is dropped instead of appended.
write_to_history_dropped(line, file) == file

\* write_to_history: the file after the call (append mode)
write_to_history(line, file) ==
    IF TrimIsEmpty(line) THEN file ELSE file \o line \o <<"\n">>

RECURSIVE LinesAcc(_, _, _)
LinesAcc(file, cur, acc) ==
    IF file = << >> THEN (IF cur = << >> THEN acc ELSE Append(acc, cur))
    ELSE IF Head(file) = "\n"
         THEN LinesAcc(Tail(file), << >>, Append(acc, cur))
         ELSE LinesAcc(Tail(file), Append(cur, Head(file)), acc)

\* read_history: one entry per line of the file (BufRead::lines)
read_history(file) == LinesAcc(file, << >>, << >>)

(***************************************************************************)
(* The dispatcher main.rs calls (commandHandler.rs)                        *)
(***************************************************************************)
get_command_enum(command) ==
    CASE command = <<"c", "d">> -> "CD"
      [] command = <<"l", "s">> -> "LS"
      [] command = <<"m", "k", "d", "i", "r">> -> "MKDIR"
      [] command = <<"+", "+">> -> "PLUSPLUS"
      [] command = <<"-", "-">> -> "MINUSMINUS"
      [] command = <<"p", "w", "d">> -> "PWD"
      [] command = <<"k", "i", "l", "l">> -> "KILL"
      [] OTHER -> "UNKNOWN"

\* The commands the typed lines reach; the filesystem built-ins are not typed.
DispatchedCommands == {"KILL", "PWD", "UNKNOWN"}

(***************************************************************************)
(* The input loop (main.rs)                                                *)
(***************************************************************************)
\* The history files the shell may find at startup.
InitHistoryFiles == { << >>, <<"x", "\n">> }

\* main.rs:81 with the cursor left on the newest entry
ResetCursorOnNewest(list) == Len(list) - 1

\* main.rs:81  index = commands_list.len()
ResetCursor(list) == Len(list)

\* main.rs:102 with the terminal left as the dispatcher had it
ReenableRawSkipped(ok) == rawMode

\* main.rs:102  enable_raw_mode()? after the dispatcher returned
ReenableRaw(ok) == IF ok THEN TRUE ELSE rawMode

Init ==
    /\ historyFile \in InitHistoryFiles
    /\ commands_list = read_history(historyFile)
    /\ index = Len(commands_list)
    /\ input = EmptyString
    /\ rawMode = TRUE
    /\ pc = "read"
    /\ exitCause = "none"
    /\ lastOp = "none"
    /\ ret = EmptyString
    /\ fault = FALSE
    /\ config = << >>
    /\ configFile = [written |-> FALSE, doc |-> << >>]
    /\ out = << >>
    /\ lastArgs = << >>
    /\ lastWrite = "none"
    /\ FsIdle

\* read()? fails while the loop waits for a key: main returns the error.
ReadError ==
    /\ pc = "read"
    /\ pc' = "exited"
    /\ exitCause' = "ioerror"
    /\ lastOp' = "ReadError"
    /\ UNCHANGED <<commands_list, index, input, historyFile, rawMode, ret,
                   fault>>
    /\ UNCHANGED cfgVars
    /\ UNCHANGED fsVars

\* KeyCode::Up; flushOk is the outcome of stdout().flush()?
KeyUp(flushOk) ==
    LET r == get_prev_command(commands_list, index) IN
    /\ pc = "read"
    /\ lastOp' = "Up"
    /\ ret' = r.ret
    /\ index' = r.index
    /\ fault' = (fault \/ r.fault)
    /\ input' = IF r.fault THEN input ELSE r.ret
    /\ pc' = IF r.fault \/ ~flushOk THEN "exited" ELSE "read"
    /\ exitCause' = IF r.fault THEN "panic"
                    ELSE IF ~flushOk THEN "ioerror" ELSE exitCause
    /\ UNCHANGED <<commands_list, historyFile, rawMode>>
    /\ UNCHANGED cfgVars
    /\ UNCHANGED fsVars

\* KeyCode::Char(c)
KeyChar(c, flushOk) ==
    /\ pc = "read"
    /\ \E line \in TypedLines : IsPrefix(Append(input, c), line)
    /\ lastOp' = "Char"
    /\ input' = Append(input, c)
    /\ pc' = IF flushOk THEN "read" ELSE "exited"
    /\ exitCause' = IF flushOk THEN exitCause ELSE "ioerror"
    /\ UNCHANGED <<commands_list, index, historyFile, rawMode, ret, fault>>
    /\ UNCHANGED cfgVars
    /\ UNCHANGED fsVars

\* KeyCode::Backspace: input.pop(), and a flush only when a character went
KeyBackspace(flushOk) ==
    /\ pc = "read"
    /\ lastOp' = "Backspace"
    /\ input' = IF input = << >> THEN input
                ELSE SubSeq(input, 1, Len(input) - 1)
    /\ pc' = IF input # << >> /\ ~flushOk THEN "exited" ELSE "read"
    /\ exitCause' = IF input # << >> /\ ~flushOk THEN "ioerror"
                    ELSE exitCause
    /\ UNCHANGED <<commands_list, index, historyFile, rawMode, ret, fault>>
    /\ UNCHANGED cfgVars
    /\ UNCHANGED fsVars

\* KeyCode::Esc: disable_raw_mode()?; return Ok(())
KeyEsc(disableOk) ==
    /\ pc = "read"
    /\ lastOp' = "Esc"
    /\ rawMode' = IF disableOk THEN FALSE ELSE rawMode
    /\ pc' = "exited"
    /\ exitCause' = IF disableOk THEN "escape" ELSE "ioerror"
    /\ UNCHANGED <<commands_list, index, input, historyFile, ret, fault>>
    /\ UNCHANGED cfgVars
    /\ UNCHANGED fsVars

\* KeyCode::Down: main.rs has no arm for it, it takes the arm `_ => {}`
KeyDown ==
    /\ pc = "read"
    /\ lastOp' = "Down"
    /\ UNCHANGED <<commands_list, index, input, historyFile, rawMode, pc,
                   exitCause, ret, fault>>
    /\ UNCHANGED cfgVars
    /\ UNCHANGED fsVars

\* Any other key (Left, Tab, ...): the arm `_ => {}`
KeyOther ==
    /\ pc = "read"
    /\ lastOp' = "Other"
    /\ UNCHANGED <<commands_list, index, input, historyFile, rawMode, pc,
                   exitCause, ret, fault>>
    /\ UNCHANGED cfgVars
    /\ UNCHANGED fsVars

\* The calls of the Enter path that end in `?`, in program order.
EnterFailures ==
    {"none", "write_to_history", "disable_raw_mode", "clear_current_line",
     "enable_raw_mode", "print_prompt"}

\* KeyCode::Enter and the rest of the iteration, up to the dispatcher call or,
\* for a line without a token, up to the next prompt.  `fail` names the call
\* that returned an error, if any.
KeyEnter(fail) ==
    LET pushed == Append(commands_list, input)
        tokens == split_whitespace(input)
        early  == fail \in {"write_to_history", "disable_raw_mode"}
    IN
    /\ pc = "read"
    /\ Len(commands_list) < MaxHist
    /\ fail = "write_to_history" => ~TrimIsEmpty(input)
    /\ fail \in {"enable_raw_mode", "print_prompt"} => tokens = << >>
    /\ lastOp' = "Enter"
    /\ commands_list' = pushed
    /\ historyFile' = IF fail = "write_to_history" THEN historyFile
                      ELSE write_to_history(input, historyFile)
    /\ index' = IF fail = "write_to_history" THEN index
                ELSE ResetCursor(pushed)
    /\ rawMode' = IF early THEN rawMode
                  ELSE IF fail = "clear_current_line" THEN FALSE
                  ELSE IF tokens = << >> /\ fail # "enable_raw_mode" THEN TRUE
                  ELSE FALSE
    /\ pc' = IF fail # "none" THEN "exited"
             ELSE IF tokens = << >> THEN "read" ELSE "dispatch"
    /\ exitCause' = IF fail # "none" THEN "ioerror" ELSE exitCause
    /\ input' = IF tokens = << >> /\ fail \in {"none", "print_prompt"}
                THEN EmptyString ELSE input
    /\ UNCHANGED <<ret, fault>>
    /\ UNCHANGED cfgVars
    /\ UNCHANGED fsVars

\* handleCommand(command, args), then enable_raw_mode()? and the top of the
\* next iteration: input.clear(); print_prompt()?
Dispatch(fail) ==
    LET tokens  == split_whitespace(input)
        command == get_command_enum(Head(tokens))
    IN
    /\ pc = "dispatch"
    /\ fail \in {"none", "enable_raw_mode", "print_prompt"}
    /\ command \in DispatchedCommands
    /\ IF command = "KILL"
       THEN /\ fail = "none"
            /\ pc' = "exited"
            /\ exitCause' = "kill"
            /\ UNCHANGED <<input, rawMode>>
       ELSE /\ rawMode' = ReenableRaw(fail # "enable_raw_mode")
            /\ pc' = IF fail = "none" THEN "read" ELSE "exited"
            /\ exitCause' = IF fail = "none" THEN exitCause ELSE "ioerror"
            /\ input' = IF fail = "enable_raw_mode" THEN input
                        ELSE EmptyString
    /\ UNCHANGED <<commands_list, index, historyFile, lastOp, ret, fault>>
    /\ UNCHANGED cfgVars
    /\ UNCHANGED fsVars

Next ==
    \/ ReadError
    \/ \E ok \in BOOLEAN : KeyUp(ok)
    \/ \E c \in {"k", "i", "l", "x", "p", "w", "d", " "}, ok \in BOOLEAN :
          KeyChar(c, ok)
    \/ \E ok \in BOOLEAN : KeyBackspace(ok)
    \/ \E ok \in BOOLEAN : KeyEsc(ok)
    \/ KeyDown
    \/ KeyOther
    \/ \E fail \in EnterFailures : KeyEnter(fail)
    \/ \E fail \in EnterFailures : Dispatch(fail)

Spec == Init /\ [][Next]_vars

(***************************************************************************)
(* The history helpers called directly, in any order, on any history of    *)
(* at most MaxNavLen entries and any cursor inside it.                     *)
(***************************************************************************)
NavHistories == UNION { [1..n -> NavEntries] : n \in 0..MaxNavLen }

NavInit ==
    /\ commands_list \in NavHistories
    /\ index \in 0..Len(commands_list)
    /\ input = EmptyString
    /\ historyFile = << >>
    /\ rawMode = FALSE
    /\ pc = "call"
    /\ exitCause = "none"
    /\ lastOp = "none"
    /\ ret = EmptyString
    /\ fault = FALSE
    /\ config = << >>
    /\ configFile = [written |-> FALSE, doc |-> << >>]
    /\ out = << >>
    /\ lastArgs = << >>
    /\ lastWrite = "none"
    /\ FsIdle

NavApply(op, r) ==
    /\ pc = "call"
    /\ ~fault
    /\ lastOp' = op
    /\ ret' = r.ret
    /\ index' = r.index
    /\ fault' = r.fault
    /\ UNCHANGED <<commands_list, input, historyFile, rawMode, pc, exitCause>>
    /\ UNCHANGED cfgVars
    /\ UNCHANGED fsVars

NavPrev == NavApply("prev", get_prev_command(commands_list, index))

NavNext == NavApply("next", get_next_command(commands_list, index))

NavNextStep == NavPrev \/ NavNext

SpecNav == NavInit /\ [][NavNextStep]_vars

(***************************************************************************)
(* C1: for every history (the empty one included) and every sequence of    *)
(* prev and next calls from a cursor in 0..n, the cursor stays in 0..n, no *)
(* call indexes the history out of range, prev at cursor 0 returns the     *)
(* empty string and next at the newest end returns the empty string.       *)
(***************************************************************************)
C1_CursorInRange ==
    /\ [](index \in 0..Len(commands_list) /\ ~fault)
    /\ [][/\ (lastOp' = "prev" /\ index = 0) => ret' = EmptyString
          /\ (lastOp' = "next" /\ index = Len(commands_list))
                => ret' = EmptyString]_vars

\* prev has answered at cursor 0 of a history of two or more entries
C1_Witness ==
    /\ lastOp = "prev"
    /\ Len(commands_list) >= 2
    /\ index = 0
    /\ ret = EmptyString

(***************************************************************************)
(* C2: prev with cursor c > 0 sets the cursor to c-1 and returns entry     *)
(* c-1; next with c < n sets the cursor to c+1 and returns entry c+1 when  *)
(* c+1 < n and the empty string when c+1 = n.                              *)
(***************************************************************************)
C2_MovesByOne ==
    [][/\ (lastOp' = "prev" /\ index > 0)
            => /\ index' = index - 1
               /\ ret' = At(commands_list, index - 1)
       /\ (lastOp' = "next" /\ index < Len(commands_list))
            => /\ index' = index + 1
               /\ ret' = IF index + 1 < Len(commands_list)
                         THEN At(commands_list, index + 1)
                         ELSE EmptyString]_vars

(***************************************************************************)
(* C3: after every Enter submission that leaves the loop running, blank    *)
(* line or not, the history cursor equals the length of the in-memory      *)
(* history.                                                                *)
(***************************************************************************)
C3_CursorResetOnSubmit ==
    (lastOp = "Enter" /\ pc \in {"read", "dispatch"})
        => index = Len(commands_list)

\* a recalled line was submitted a second time and is about to be dispatched
C3_Witness ==
    /\ lastOp = "Enter"
    /\ pc = "dispatch"
    /\ Len(commands_list) = 2
    /\ commands_list[1] = commands_list[2]
    /\ index = 2

(***************************************************************************)
(* C4: submitting an empty or whitespace-only line never changes the       *)
(* length of the history: neither the in-memory history nor the history    *)
(* file gains an entry.                                                    *)
(***************************************************************************)
C4_BlankLineNotRecorded ==
    [][(pc = "read" /\ lastOp' = "Enter" /\ TrimIsEmpty(input))
          => /\ Len(commands_list') = Len(commands_list)
             /\ historyFile' = historyFile]_vars

(***************************************************************************)
(* C5: when Enter is pressed on a line with no token after trimming, the   *)
(* dispatcher is not invoked and, unless a terminal call fails, raw mode   *)
(* is on again and the loop is at a new iteration with an empty buffer.    *)
(***************************************************************************)
C5_BlankLineSkipsDispatch ==
    [][(pc = "read" /\ lastOp' = "Enter" /\ TrimIsEmpty(input))
          => /\ pc' # "dispatch"
             /\ \/ exitCause' = "ioerror"
                \/ (pc' = "read" /\ rawMode' /\ input' = EmptyString)]_vars

\* a whitespace-only line was submitted and the loop waits for the next key
C5_Witness ==
    /\ lastOp = "Enter"
    /\ pc = "read"
    /\ commands_list # << >>
    /\ commands_list[Len(commands_list)] = <<" ">>
    /\ rawMode
    /\ input = EmptyString

(***************************************************************************)
(* C6: whenever the dispatcher is executing a command raw mode is off, and *)
(* whenever the loop waits for a key event raw mode is on.                 *)
(***************************************************************************)
C6_RawModeBracketsDispatch ==
    /\ pc = "dispatch" => ~rawMode
    /\ pc = "read" => rawMode

\* a command was dispatched, returned, and the loop waits for a key again
C6_Witness ==
    /\ lastOp = "Enter"
    /\ pc = "read"
    /\ rawMode
    /\ commands_list # << >>
    /\ ~TrimIsEmpty(commands_list[Len(commands_list)])

(***************************************************************************)
(* C7: on every path by which the process ends from within the input loop  *)
(* (Escape, kill, a terminal read/write error propagated out of main) raw  *)
(* mode has been disabled before the process terminates.                   *)
(***************************************************************************)
C7_RawModeOffAtExit ==
    (pc = "exited" /\ exitCause \in {"escape", "kill", "ioerror"})
        => ~rawMode

(***************************************************************************)
(* Color and CustomizationOptions (customization_handler.rs)               *)
(***************************************************************************)
Colors == {"Color::Red", "Color::Green", "Color::Blue", "Color::Yellow",
           "Color::Magenta", "Color::Cyan", "Color::White", "Color::Black"}

Color_from_str(s) ==
    CASE s = "Red" -> <<"Color::Red">>
      [] s = "Green" -> <<"Color::Green">>
      [] s = "Blue" -> <<"Color::Blue">>
      [] s = "Yellow" -> <<"Color::Yellow">>
      [] s = "Magenta" -> <<"Color::Magenta">>
      [] s = "Cyan" -> <<"Color::Cyan">>
      [] s = "White" -> <<"Color::White">>
      [] s = "Black" -> <<"Color::Black">>
      [] OTHER -> << >>

\* The Cyan arm was copied from the Magenta arm.
make_str_copied_arm(c) ==
    CASE c = "Color::Red" -> "Red"
      [] c = "Color::Green" -> "Green"
      [] c = "Color::Blue" -> "Blue"
      [] c = "Color::Yellow" -> "Yellow"
      [] c = "Color::Magenta" -> "Magenta"
      [] c = "Color::Cyan" -> "Magenta"
      [] c = "Color::White" -> "White"
      [] c = "Color::Black" -> "Black"

make_str(c) ==
    CASE c = "Color::Red" -> "Red"
      [] c = "Color::Green" -> "Green"
      [] c = "Color::Blue" -> "Blue"
      [] c = "Color::Yellow" -> "Yellow"
      [] c = "Color::Magenta" -> "Magenta"
      [] c = "Color::Cyan" -> "Cyan"
      [] c = "Color::White" -> "White"
      [] c = "Color::Black" -> "Black"

CustomizationOptions ==
    {"TextColor", "BackgroundColor", "FontSize", "ErrorColor", "PromptColor",
     "PromptText"}

as_str(o) ==
    CASE o = "TextColor" -> "Text_Color"
      [] o = "BackgroundColor" -> "Background_Color"
      [] o = "FontSize" -> "Font_Size"
      [] o = "ErrorColor" -> "Error_Color"
      [] o = "PromptColor" -> "Prompt_Color"
      [] o = "PromptText" -> "Prompt_Text"

\* An unknown name falls back to Text_Color instead of None.
Options_from_str_fallback(s) ==
    CASE s = "Text_Color" -> <<"TextColor">>
      [] s = "Background_Color" -> <<"BackgroundColor">>
      [] s = "Font_Size" -> <<"FontSize">>
      [] s = "Error_Color" -> <<"ErrorColor">>
      [] s = "Prompt_Color" -> <<"PromptColor">>
      [] s = "Prompt_Text" -> <<"PromptText">>
      [] OTHER -> <<"TextColor">>

Options_from_str(s) ==
    CASE s = "Text_Color" -> <<"TextColor">>
      [] s = "Background_Color" -> <<"BackgroundColor">>
      [] s = "Font_Size" -> <<"FontSize">>
      [] s = "Error_Color" -> <<"ErrorColor">>
      [] s = "Prompt_Color" -> <<"PromptColor">>
      [] s = "Prompt_Text" -> <<"PromptText">>
      [] OTHER -> << >>

\* Option::unwrap_or
unwrap_or(opt, default) == IF opt = << >> THEN default ELSE opt[1]

get_customization_options ==
    << [option |-> "TextColor", value |-> << >>],
       [option |-> "BackgroundColor", value |-> << >>],
       [option |-> "FontSize", value |-> << >>],
       [option |-> "ErrorColor", value |-> << >>],
       [option |-> "PromptColor", value |-> << >>],
       [option |-> "PromptText", value |-> << >>] >>

(***************************************************************************)
(* The configuration file (helpers.rs).  A written file holds a JSON array *)
(* of objects; a JSON string is <<"string", s>> and JSON null <<"null">>.  *)
(***************************************************************************)
to_string_pretty(configs) ==
    [i \in 1..Len(configs) |->
        [option |-> <<"string", configs[i].option>>,
         value  |-> IF configs[i].value = << >> THEN <<"null">>
                    ELSE <<"string", configs[i].value[1]>>]]

\* serde_json::from_reader: the record, or None on a document it rejects
from_reader(file) ==
    IF /\ file.written
       /\ \A i \in 1..Len(file.doc) :
             /\ file.doc[i].option[1] = "string"
             /\ file.doc[i].option[2] \in CustomizationOptions
    THEN << [i \in 1..Len(file.doc) |->
               [option |-> file.doc[i].option[2],
                value  |-> IF file.doc[i].value = <<"null">> THEN << >>
                           ELSE <<file.doc[i].value[2]>>]] >>
    ELSE << >>

read_config(file) == from_reader(file)

\* How a write of the configuration file may end: File::create fails (the
\* file is left as it was), or write_all fails after the truncation.
WriteOutcomes == {"ok", "create_fails", "write_fails"}

update_config(configs, file, wr) ==
    CASE wr = "ok" ->
            [file |-> [written |-> TRUE, doc |-> to_string_pretty(configs)],
             err |-> FALSE]
      [] wr = "create_fails" -> [file |-> file, err |-> TRUE]
      [] wr = "write_fails" ->
            [file |-> [written |-> FALSE, doc |-> << >>], err |-> TRUE]

\* initialize_config_file when no file exists yet
initialize_config_file ==
    [written |-> TRUE, doc |-> to_string_pretty(get_customization_options)]

(***************************************************************************)
(* Lookup (command_handler.rs)                                             *)
(***************************************************************************)
get_config_value(key, configs_vector) ==
    LET hits == {i \in 1..Len(configs_vector) :
                    configs_vector[i].option = key}
    IN IF hits = {} THEN << >>
       ELSE configs_vector[CHOOSE i \in hits : \A j \in hits : i <= j].value

\* The parsed color is dropped and the default returned for every value.
get_color_always_default(option, configs_vector) == "Color::Red"

get_color(option, configs_vector) ==
    LET v == get_config_value(option, configs_vector) IN
    unwrap_or(IF v = << >> THEN << >> ELSE Color_from_str(v[1]), "Color::Red")

(***************************************************************************)
(* customize (customization_handler.rs)                                    *)
(***************************************************************************)
print_message(message, color) == [text |-> message, color |-> color]
println(message) == [text |-> message, color |-> "plain"]

\* for config in config.iter_mut() { if config.option == text_type { .. } }
SetValue(cfg, text_type, v) ==
    [i \in 1..Len(cfg) |->
        IF cfg[i].option = text_type
        THEN [option |-> cfg[i].option, value |-> <<v>>]
        ELSE cfg[i]]

change_text_color(cfg, third_arg, text_type, file, wr) ==
    LET color_name == unwrap_or(third_arg, "default")
        color == unwrap_or(Color_from_str(color_name), "Color::Red")
        mutated == SetValue(cfg, text_type, color_name)
        w == update_config(mutated, file, wr)
    IN [config |-> mutated, file |-> w.file, wrote |-> TRUE, err |-> w.err,
        out |-> IF w.err THEN << >>
                ELSE << print_message(
                          <<"Changed ", as_str(text_type), " Color to ",
                            make_str(color)>>, color) >>]

\* The new value is pushed as a further entry instead of replacing the old.
change_prompt_text_push(cfg, third_arg, text_type, file, wr) ==
    LET text == unwrap_or(third_arg, "Prompt")
        color == get_color("TextColor", cfg)
        mutated == Append(cfg, [option |-> text_type, value |-> <<text>>])
        w == update_config(mutated, file, wr)
    IN [config |-> mutated, file |-> w.file, wrote |-> TRUE, err |-> w.err,
        out |-> IF w.err THEN << >>
                ELSE << print_message(<<"Changed prompt to ", text>>,
                                      color) >>]

change_prompt_text(cfg, third_arg, text_type, file, wr) ==
    LET text == unwrap_or(third_arg, "Prompt")
        color == get_color("TextColor", cfg)
        mutated == SetValue(cfg, text_type, text)
        w == update_config(mutated, file, wr)
    IN [config |-> mutated, file |-> w.file, wrote |-> TRUE, err |-> w.err,
        out |-> IF w.err THEN << >>
                ELSE << print_message(<<"Changed prompt to ", text>>,
                                      color) >>]

\* print_customization_options: the two tables, as one message
print_customization_options == println(<<"Available Customization Options">>)

\* The result of handle_customize; the Result of change_* is dropped, so the
\* function returns Ok(()) whatever `err` says.
Untouched(cfg, file, msgs) ==
    [config |-> cfg, file |-> file, wrote |-> FALSE, err |-> FALSE,
     out |-> msgs]

handle_customize(args, cfg, file, wr) ==
    LET color == get_color("TextColor", cfg)
        error_color == get_color("ErrorColor", cfg)
        third_arg == IF Len(args) >= 2 THEN <<args[2]>> ELSE << >>
    IN
    IF args = << >>
    THEN Untouched(cfg, file,
            << print_message(
                 <<"Error: Missing second argument for customize command">>,
                 color) >>)
    ELSE IF args[1] = "--help"
    THEN Untouched(cfg, file, << print_customization_options >>)
    ELSE LET o == Options_from_str(args[1]) IN
         CASE o = <<"TextColor">> ->
                 change_text_color(cfg, third_arg, "TextColor", file, wr)
           [] o = <<"BackgroundColor">> ->
                 Untouched(cfg, file,
                    << println(<<"Change Background Color to ",
                                 unwrap_or(third_arg, "default")>>) >>)
           [] o = <<"FontSize">> ->
                 Untouched(cfg, file,
                    << println(<<"Change Font Size to ",
                                 unwrap_or(third_arg, "default")>>) >>)
           [] o = <<"ErrorColor">> ->
                 change_text_color(cfg, third_arg, "ErrorColor", file, wr)
           [] o = <<"PromptColor">> ->
                 change_text_color(cfg, third_arg, "PromptColor", file, wr)
           [] o = <<"PromptText">> ->
                 change_prompt_text(cfg, third_arg, "PromptText", file, wr)
           [] OTHER ->
                 Untouched(cfg, file,
                    << print_message(
                         <<"Error: Invalid customization option">>,
                         error_color) >>)

(***************************************************************************)
(* customize commands run by execute_command, in any order, on the default *)
(* record.                                                                 *)
(***************************************************************************)
\* The second and third words of the customize lines the user types.
OptionWords ==
    {"Text_Color", "Background_Color", "Font_Size", "Error_Color",
     "Prompt_Color", "Prompt_Text", "--help", "Bogus"}
ValueWords == {"Blue"}
CustomizeArgs ==
    {<< >>} \cup {<<n>> : n \in OptionWords}
            \cup {<<n, v>> : n \in OptionWords, v \in ValueWords}

CfgInit ==
    /\ config = get_customization_options
    /\ configFile = initialize_config_file
    /\ out = << >>
    /\ lastArgs = << >>
    /\ lastWrite = "none"
    /\ FsIdle
    /\ pc = "customize"
    /\ lastOp = "none"
    /\ commands_list = << >>
    /\ index = 0
    /\ input = EmptyString
    /\ historyFile = << >>
    /\ rawMode = FALSE
    /\ exitCause = "none"
    /\ ret = EmptyString
    /\ fault = FALSE

\* execute_command("customize", args, current_config)
Customize(args, wr) ==
    LET r == handle_customize(args, config, configFile, wr) IN
    /\ pc = "customize"
    /\ r.wrote \/ wr = "ok"
    /\ config' = r.config
    /\ configFile' = r.file
    /\ out' = r.out
    /\ lastArgs' = args
    /\ lastWrite' = IF r.wrote THEN wr ELSE "none"
    /\ lastOp' = "customize"
    /\ UNCHANGED <<commands_list, index, input, historyFile, rawMode, pc,
                   exitCause, ret, fault>>
    /\ UNCHANGED fsVars

CfgNext == \E args \in CustomizeArgs, wr \in WriteOutcomes : Customize(args, wr)

SpecCfg == CfgInit /\ [][CfgNext]_vars

(***************************************************************************)
(* C8: for each of the six options, `customize <option> v` followed by     *)
(* get_config_value of that option returns v, and the values of the five   *)
(* other options are unchanged.                                            *)
(***************************************************************************)
C8_SetThenGet ==
    [][\A o \in CustomizationOptions, v \in ValueWords :
          (pc = "customize" /\ lastOp' = "customize"
              /\ lastArgs' = <<as_str(o), v>>)
            => /\ get_config_value(o, config') = <<v>>
               /\ \A p \in CustomizationOptions \ {o} :
                     get_config_value(p, config')
                        = get_config_value(p, config)]_vars

(***************************************************************************)
(* C9: the in-memory configuration record always holds exactly six         *)
(* entries, one per option: no sequence of customize commands (valid,      *)
(* invalid or argument-less) adds, removes or duplicates a key.            *)
(***************************************************************************)
C9_SixEntries ==
    /\ Len(config) = 6
    /\ \A o \in CustomizationOptions :
          Cardinality({i \in 1..Len(config) : config[i].option = o}) = 1

\* after a valid set with a value, a valid one without, and an invalid name
C9_Witness ==
    /\ lastOp = "customize"
    /\ lastArgs = <<"Bogus">>
    /\ get_config_value("PromptText", config) = <<"Blue">>
    /\ get_config_value("TextColor", config) = <<"default">>

(***************************************************************************)
(* C10: after every customize command that mutates an option and returns,  *)
(* the configuration file holds the complete six-entry record and equals   *)
(* the in-memory record; a failure to write it is reported to the user.    *)
(***************************************************************************)
C10_PersistedEqualsMemory ==
    [][(pc = "customize" /\ lastOp' = "customize")
          => /\ config' # config
                   => /\ read_config(configFile') = <<config'>>
                      /\ Len(configFile'.doc) = 6
             /\ lastWrite' \in {"create_fails", "write_fails"}
                   => out' # << >>]_vars

(***************************************************************************)
(* C11: `customize <name>` where name is not one of the six option names   *)
(* reports an error and leaves both the in-memory record and the           *)
(* persisted configuration unchanged.                                      *)
(***************************************************************************)
SixOptionNames ==
    {"Text_Color", "Background_Color", "Font_Size", "Error_Color",
     "Prompt_Color", "Prompt_Text"}

ReportsInvalidOption(msgs) ==
    /\ msgs # << >>
    /\ msgs[1].text = <<"Error: Invalid customization option">>

UnknownNameRejected(excluded) ==
    \A args \in CustomizeArgs :
       (/\ pc = "customize" /\ lastOp' = "customize" /\ lastArgs' = args
        /\ args # << >>
        /\ args[1] \notin SixOptionNames \cup excluded)
         => /\ config' = config
            /\ configFile' = configFile
            /\ ReportsInvalidOption(out')

\* The claim as stated: every name outside the six is answered by an error.
C11_UnknownNameRejected == [][UnknownNameRejected({})]_vars

\* As amended: every name outside the six other than the literal `--help`,
\* which prints the option and color tables, is answered by an error.
C11_UnknownNameRejectedExceptHelp ==
    [][UnknownNameRejected({"--help"})]_vars

\* an unknown name, with a value, was rejected on a record that had been set
C11_Witness ==
    /\ lastOp = "customize"
    /\ lastArgs = <<"Bogus", "Blue">>
    /\ ReportsInvalidOption(out)
    /\ get_config_value("ErrorColor", config) = <<"Blue">>
    /\ read_config(configFile) = <<config>>

(***************************************************************************)
(* The lookups and the enumeration/text mappings applied directly: to a    *)
(* record with one option holding any of StoredValues, to every Color and  *)
(* to every option.                                                        *)
(***************************************************************************)
\* The values an option of the configuration file may hold.
StoredValues ==
    {"Red", "Green", "Blue", "Yellow", "Magenta", "Cyan", "White", "Black",
     "default", "blue", "Prompt", "12"}

EnumInit ==
    /\ \/ config = get_customization_options
       \/ \E o \in CustomizationOptions, v \in StoredValues :
             config = SetValue(get_customization_options, o, v)
    /\ configFile = [written |-> TRUE, doc |-> to_string_pretty(config)]
    /\ out = << >>
    /\ lastArgs = << >>
    /\ lastWrite = "none"
    /\ pc = "apply"
    /\ lastOp = "none"
    /\ ret = << >>
    /\ commands_list = << >>
    /\ index = 0
    /\ input = EmptyString
    /\ historyFile = << >>
    /\ rawMode = FALSE
    /\ exitCause = "none"
    /\ fault = FALSE
    /\ FsIdle

Applied(op, arg, result) ==
    /\ pc = "apply"
    /\ lastOp' = op
    /\ lastArgs' = <<arg>>
    /\ ret' = result
    /\ UNCHANGED <<commands_list, index, input, historyFile, rawMode, pc,
                   exitCause, fault, config, configFile, out, lastWrite>>
    /\ UNCHANGED fsVars

ApplyGetColor(o) == Applied("get_color", o, get_color(o, config))

ApplyColorRoundTrip(c) ==
    Applied("Color::from_str(make_str)", c, Color_from_str(make_str(c)))

ApplyOptionRoundTrip(o) ==
    Applied("CustomizationOptions::from_str(as_str)", o,
            Options_from_str(as_str(o)))

EnumNext ==
    \/ \E o \in CustomizationOptions : ApplyGetColor(o)
    \/ \E c \in Colors : ApplyColorRoundTrip(c)
    \/ \E o \in CustomizationOptions : ApplyOptionRoundTrip(o)

SpecEnum == EnumInit /\ [][EnumNext]_vars

(***************************************************************************)
(* C12: get_color(option) returns Red when the option's value is unset or  *)
(* is not the name of a color, and the named color otherwise (the value    *)
(* "Blue" gives Blue); the call always returns a Color and leaves the      *)
(* record as it was.                                                       *)
(***************************************************************************)
StoredValue(o) ==
    config[CHOOSE i \in 1..Len(config) : config[i].option = o].value

ColorNames ==
    {"Red", "Green", "Blue", "Yellow", "Magenta", "Cyan", "White", "Black"}

GetColorResult ==
    LET v == StoredValue(lastArgs'[1]) IN
    /\ ret' \in Colors
    /\ (v = << >> \/ v[1] \notin ColorNames) => ret' = "Color::Red"
    /\ v = <<"Blue">> => ret' = "Color::Blue"
    /\ (v # << >> /\ v[1] \in ColorNames) => make_str(ret') = v[1]
    /\ config' = config
    /\ configFile' = configFile
    /\ pc' = pc

C12_GetColorDefaultsToRed == [][lastOp' = "get_color" => GetColorResult]_vars

\* asked for the color of an option holding a value that names a color
C12_Witness ==
    /\ lastOp = "get_color"
    /\ StoredValue(lastArgs[1]) = <<"Blue">>
    /\ ret = "Color::Blue"

(***************************************************************************)
(* C13: the enumeration/text mappings are lossless round trips: for every  *)
(* Color c, Color::from_str(c.make_str()) = c, for every option o,         *)
(* CustomizationOptions::from_str(o.as_str()) = o, and distinct members    *)
(* map to distinct names.                                                  *)
(***************************************************************************)
C13_RoundTrips ==
    /\ lastOp \in {"Color::from_str(make_str)",
                   "CustomizationOptions::from_str(as_str)"}
          => ret = <<lastArgs[1]>>
    /\ \A c1, c2 \in Colors : c1 # c2 => make_str(c1) # make_str(c2)
    /\ \A o1, o2 \in CustomizationOptions : o1 # o2 => as_str(o1) # as_str(o2)

\* the last Color of the enumeration has made the round trip
C13_Witness ==
    /\ lastOp = "Color::from_str(make_str)"
    /\ lastArgs = <<"Color::Cyan">>
    /\ ret = <<"Color::Cyan">>

(***************************************************************************)
(* The filesystem the built-ins act on.  A path is the sequence of its     *)
(* components from the root, a component a sequence of characters; dirs    *)
(* is the set of directories, files the set of <<path, content>> pairs.    *)
(***************************************************************************)
\* get_home_dir(): $HOME, here /h
HomeDir == << <<"h">> >>

HistoryName == <<".", "m", "y", "s", "h", "_", "h", "i", "s", "t", "o", "r", "y">>

\* format!("{}/.mysh_history", get_home_dir())
HistoryPath == Append(HomeDir, HistoryName)

\* Path::new(s).components(): the pieces between "/", without empty pieces
\* and "." pieces
RECURSIVE ComponentsAcc(_, _, _)
ComponentsAcc(s, cur, acc) ==
    LET keep == IF cur = << >> \/ cur = <<".">> THEN acc ELSE Append(acc, cur)
    IN IF s = << >> THEN keep
       ELSE IF Head(s) = "/" THEN ComponentsAcc(Tail(s), << >>, keep)
       ELSE ComponentsAcc(Tail(s), Append(cur, Head(s)), acc)

Components(s) == ComponentsAcc(s, << >>, << >>)

has_root(s) == s # << >> /\ s[1] = "/"

\* PathBuf::join: an absolute argument replaces the base
join(base, s) == IF has_root(s) THEN Components(s) ELSE base \o Components(s)

Prefixes(path) == { SubSeq(path, 1, k) : k \in 1..Len(path) }

Parent(path) == SubSeq(path, 1, Len(path) - 1)

is_dir(path) == path \in dirs

is_file(path) == \E f \in files : f[1] = path

\* Path::exists
exists(path) == is_dir(path) \/ is_file(path)

\* std::fs::create_dir, which needs the parent and makes one level
create_dir(path, osOk) ==
    IF path # << >> /\ is_dir(Parent(path)) /\ ~exists(path) /\ osOk
    THEN [ok |-> TRUE, dirs |-> dirs \cup {path}]
    ELSE [ok |-> FALSE, dirs |-> dirs]

\* std::fs::create_dir_all: every missing level is made; a path that is
\* already a directory is a success
create_dir_all(path, osOk) ==
    IF is_dir(path) THEN [ok |-> TRUE, dirs |-> dirs]
    ELSE IF (\E q \in Prefixes(path) : is_file(q)) \/ ~osOk
    THEN [ok |-> FALSE, dirs |-> dirs]
    ELSE [ok |-> TRUE, dirs |-> dirs \cup Prefixes(path)]

\* File::create: creates the file, or truncates the one that is there
File_create(path, osOk) ==
    IF path # << >> /\ is_dir(Parent(path)) /\ ~is_dir(path) /\ osOk
    THEN [ok |-> TRUE,
          files |-> {f \in files : f[1] # path} \cup {<<path, EmptyString>>}]
    ELSE [ok |-> FALSE, files |-> files]

\* std::fs::remove_file
fs_remove_file(path, osOk) ==
    IF is_file(path) /\ osOk
    THEN [ok |-> TRUE, files |-> {f \in files : f[1] # path}]
    ELSE [ok |-> FALSE, files |-> files]

\* env::set_current_dir
set_current_dir(path) ==
    IF is_dir(path) THEN [ok |-> TRUE, cwd |-> path]
    ELSE [ok |-> FALSE, cwd |-> cwd]

\* Path::read_dir: the entries of a directory
read_dir(path) ==
    IF is_dir(path)
    THEN [ok |-> TRUE,
          entries |-> { q \in dirs \cup {f[1] : f \in files} :
                          q # << >> /\ Parent(q) = path }]
    ELSE [ok |-> FALSE, entries |-> {}]

\* the commands on $PATH
OnPath == { <<"l", "s">>, <<"w", "c">> }

\* Command::new(program).spawn()
spawn(program) == program \in OnPath

(***************************************************************************)
(* What one call of a dispatcher does: the filesystem, working directory   *)
(* and configuration it leaves, the messages it prints (a formatted        *)
(* message is its format string followed by its arguments), the            *)
(* filesystem calls it makes, and how it ends: "Ok", "Err" (with the       *)
(* error's text), "panic" or "exit".                                       *)
(***************************************************************************)
Same ==
    [dirs |-> dirs, files |-> files, cwd |-> cwd,
     config |-> config, configFile |-> configFile,
     out |-> << >>, ops |-> << >>, result |-> "Ok", error |-> << >>,
     asked |-> FALSE, read |-> << >>, waited |-> FALSE]

\* a filesystem call: what was called on which path, whether the path was
\* there when it was called, and whether the call succeeded
Op(call, path, ok) ==
    [call |-> call, path |-> path, found |-> exists(path), ok |-> ok]

red(text) == [text |-> text, color |-> "red"]
green(text) == [text |-> text, color |-> "green"]
eprintln(text) == [text |-> text, color |-> "stderr"]

\* the text of an io::Error the operating system returned
OsError == "os error"

RECURSIVE trim_start(_)
trim_start(s) ==
    IF s # << >> /\ IsWhitespace(Head(s)) THEN trim_start(Tail(s)) ELSE s

RECURSIVE trim_end(_)
trim_end(s) ==
    IF s # << >> /\ IsWhitespace(s[Len(s)])
    THEN trim_end(SubSeq(s, 1, Len(s) - 1)) ELSE s

\* str::trim
trim(s) == trim_end(trim_start(s))

\* the response compared without regard to case or surrounding text
confirmed_any_yes(response) ==
    \E i \in 1..Len(response) : response[i] \in {"y", "Y"}

\* input.trim() == "yes"
confirmed(response) == trim(response) = <<"y", "e", "s">>

(***************************************************************************)
(* The built-ins of command_handler.rs                                     *)
(***************************************************************************)
command_handler_get_command_enum(command) ==
    CASE command = <<"c", "d">> -> "CD"
      [] command = <<"l", "s">> -> "LS"
      [] command = <<"m", "k", "d", "i", "r">> -> "MKDIR"
      [] command = <<"+", "+">> -> "PLUSPLUS"
      [] command = <<"-", "-">> -> "MINUSMINUS"
      [] command = <<"p", "w", "d">> -> "PWD"
      [] command = <<"k", "i", "l", "l">> -> "KILL"
      [] command = <<"h", "e", "l", "p">> -> "HELP"
      [] command = <<"d", "i", "r", "c", "o", "n", "t", "e", "n", "t">>
            -> "DIRCONTENT"
      [] command = <<"c", "l", "e", "a", "r">> -> "CLEAR"
      [] command = <<"c", "u", "s", "t", "o", "m", "i", "z", "e">>
            -> "CUSTOMIZE"
      [] OTHER -> "UNKNOWN"

\* cd with no argument stays where it is
handle_current_dir_stay(args, response, osOk) ==
    LET r == set_current_dir(IF args = << >> THEN cwd ELSE join(cwd, args[1]))
    IN IF r.ok
       THEN [Same EXCEPT !.cwd = r.cwd]
       ELSE [Same EXCEPT
               !.out = << print_message(
                            <<"Failed to change directory: {}", OsError>>,
                            get_color("ErrorColor", config)) >>,
               !.result = "Err", !.error = <<OsError>>]

handle_current_dir(args, response, osOk) ==
    LET new_dir == IF args = << >> THEN <<"/">> ELSE args[1]
        root == join(cwd, new_dir)
        r == set_current_dir(root)
    IN IF r.ok
       THEN [Same EXCEPT !.cwd = r.cwd,
                         !.ops = << Op("set_current_dir", root, TRUE) >>]
       ELSE [Same EXCEPT
               !.ops = << Op("set_current_dir", root, FALSE) >>,
               !.out = << print_message(
                            <<"Failed to change directory: {}", OsError>>,
                            get_color("ErrorColor", config)) >>,
               !.result = "Err", !.error = <<OsError>>]

\* The entries are printed one message each, in the order the directory
\* yields them: here one message that carries the set of entries.
print_ls(path) ==
    LET r == read_dir(join(cwd, path)) IN
    [Same EXCEPT
       !.ops = << Op("read_dir", join(cwd, path), r.ok) >>,
       !.out = IF r.ok
               THEN << println(<<"">>),
                       print_message(<<"\t> {}", r.entries>>,
                                     get_color("TextColor", config)),
                       println(<<"">>) >>
               ELSE << println(<<"">>),
                       eprintln(<<"Failed to read directory {}: {}",
                                  path, OsError>>),
                       println(<<"">>) >>]

list_dir(args, response, osOk) ==
    LET piped == args # << >> /\ args[1] = <<"|">>
        rest == IF piped THEN SubSeq(args, 3, Len(args)) ELSE args
    IN IF piped /\ Len(args) >= 2
       THEN IF ~spawn(<<"l", "s">>)
            THEN [Same EXCEPT !.result = "Err", !.error = <<"ls not found">>]
            ELSE IF ~spawn(args[2])
            THEN [Same EXCEPT !.result = "Err",
                              !.error = <<"{} not found", args[2]>>]
            ELSE [Same EXCEPT !.waited = TRUE]
       ELSE print_ls(IF rest = << >> THEN <<".">> ELSE rest[1])

make_dir(args, response, osOk) ==
    IF args = << >>
    THEN [Same EXCEPT
            !.out = << red(<<"Error: Missing directory name for mkdir command">>) >>]
    ELSE LET path == join(cwd, args[1])
             r == create_dir_all(path, osOk)
         IN [Same EXCEPT
               !.dirs = r.dirs,
               !.ops = << Op("create_dir_all", path, r.ok) >>,
               !.out = IF r.ok THEN << >>
                       ELSE << println(<<"Failed to create directory: {}",
                                         OsError>>) >>]

\* Validator::validate with the two rules make_file adds
validate(text) ==
    IF text = << >>
    THEN [ok |-> FALSE, out |-> << println(<<"Invalid input: {}", "file_name">>) >>]
    ELSE IF exists(join(cwd, text))
    THEN [ok |-> FALSE,
          out |-> << println(<<"Invalid input: {}", "file_does_not_exist">>) >>]
    ELSE [ok |-> TRUE, out |-> << >>]

make_file(args, response, osOk) ==
    IF args = << >>
    THEN [Same EXCEPT
            !.out = << print_message(
                         <<"Error: Missing file name argument for ++ command">>,
                         get_color("ErrorColor", config)) >>]
    ELSE LET file_name == args[1]
             v == validate(file_name)
             path == join(cwd, file_name)
             r == File_create(path, osOk)
         IN IF ~v.ok
            THEN [Same EXCEPT
                    !.out = v.out \o << red(<<"Invalid input: {}", file_name>>) >>]
            ELSE IF ~r.ok
            THEN [Same EXCEPT
                    !.ops = << Op("File::create", path, FALSE) >>,
                    !.out = << println(<<"Failed to create file: {}", OsError>>) >>,
                    !.result = "Err",
                    !.error = <<"Failed to create file: {}", OsError>>]
            ELSE [Same EXCEPT
                    !.files = r.files,
                    !.ops = << Op("File::create", path, TRUE) >>,
                    !.out = << green(<<"\nFile created successfully!\n">>) >>]

remove_file(args, response, osOk) ==
    IF args = << >>
    THEN [Same EXCEPT
            !.out = << red(<<"Error: No file specified for -- command">>) >>]
    ELSE LET file_name == args[1]
             full_path == join(cwd, file_name)
             question == red(<<"\nAre you sure you want to delete {} (yes/no)?\n",
                               file_name>>)
             r == fs_remove_file(full_path, osOk)
         IN IF ~exists(full_path)
            THEN [Same EXCEPT
                    !.out = << red(<<"File not found: {}", file_name>>) >>]
            ELSE IF ~confirmed(response)
            THEN [Same EXCEPT
                    !.asked = TRUE, !.read = <<response>>,
                    !.out = << question, println(<<"Deletion canceled.">>) >>]
            ELSE IF ~r.ok
            THEN [Same EXCEPT
                    !.asked = TRUE, !.read = <<response>>,
                    !.ops = << Op("remove_file", full_path, FALSE) >>,
                    !.out = << question >>,
                    !.result = "Err", !.error = <<OsError>>]
            ELSE [Same EXCEPT
                    !.asked = TRUE, !.read = <<response>>,
                    !.files = r.files,
                    !.ops = << Op("remove_file", full_path, TRUE) >>,
                    !.out = << question,
                               green(<<"\nFile deleted: {}\n", file_name>>) >>]

get_dir_content(path) ==
    LET r == read_dir(join(cwd, path)) IN
    [Same EXCEPT
       !.ops = << Op("read_dir", join(cwd, path), r.ok) >>,
       !.out = IF r.ok
               THEN << println(<<"Contents of {}:", path, r.entries>>) >>
               ELSE << eprintln(<<"Failed to read directory {}: {}",
                                  path, OsError>>) >>]

handle_dircontent(args, response, osOk) ==
    get_dir_content(IF args = << >> THEN <<"/">> ELSE args[1])

\* The history file is removed and not initialized again.
clear_history_remove_only(osOk) ==
    LET r == fs_remove_file(HistoryPath, osOk) IN
    IF ~r.ok
    THEN [Same EXCEPT !.ops = << Op("remove_file", HistoryPath, FALSE) >>,
                      !.result = "panic"]
    ELSE [Same EXCEPT
            !.files = r.files,
            !.ops = << Op("remove_file", HistoryPath, TRUE) >>]

\* remove_file(history_path).unwrap(), then initialize_history_file() and
\* set_len(0) on the file it opened
clear_history(osOk) ==
    LET r == fs_remove_file(HistoryPath, osOk) IN
    IF ~r.ok
    THEN [Same EXCEPT !.ops = << Op("remove_file", HistoryPath, FALSE) >>,
                      !.result = "panic"]
    ELSE [Same EXCEPT
            !.files = r.files \cup {<<HistoryPath, EmptyString>>},
            !.ops = << Op("remove_file", HistoryPath, TRUE),
                       Op("File::create", HistoryPath, TRUE) >>]

execute_command(command, args, response, osOk) ==
    LET c == command_handler_get_command_enum(command) IN
    CASE c = "CD" -> handle_current_dir(args, response, osOk)
      [] c = "LS" ->
            [list_dir(args, response, osOk) EXCEPT
               !.result = "Ok", !.error = << >>]
      [] c = "MKDIR" -> make_dir(args, response, osOk)
      [] c = "PLUSPLUS" -> make_file(args, response, osOk)
      [] c = "MINUSMINUS" -> remove_file(args, response, osOk)
      [] c = "KILL" -> [Same EXCEPT !.result = "exit"]
      [] c = "PWD" ->
            [Same EXCEPT
               !.out = << print_message(<<"{}", cwd>>,
                                        get_color("TextColor", config)) >>]
      [] c = "HELP" -> [Same EXCEPT !.out = << println(<<"Commands:\n">>) >>]
      [] c = "DIRCONTENT" -> handle_dircontent(args, response, osOk)
      [] c = "CLEAR" ->
            LET r == clear_history(osOk) IN
            IF r.result = "panic" THEN r
            ELSE [r EXCEPT !.result = "Ok", !.error = << >>]
      [] c = "CUSTOMIZE" ->
            LET r == handle_customize(args, config, configFile, "ok") IN
            [Same EXCEPT !.config = r.config, !.configFile = r.file,
                         !.out = r.out]
      [] c = "UNKNOWN" ->
            [Same EXCEPT
               !.out = << print_message(<<"Unknown command">>,
                                        get_color("ErrorColor", config)) >>]

(***************************************************************************)
(* The dispatcher main.rs calls (commandHandler.rs)                        *)
(***************************************************************************)
\* print_ls of commandHandler.rs: read_dir(..).unwrap()
commandHandler_print_ls(path) ==
    LET r == read_dir(join(cwd, path)) IN
    IF r.ok
    THEN [Same EXCEPT
            !.ops = << Op("read_dir", join(cwd, path), TRUE) >>,
            !.out = << println(<<"">>), println(<<"\t> {}", r.entries>>),
                       println(<<"">>) >>]
    ELSE [Same EXCEPT
            !.ops = << Op("read_dir", join(cwd, path), FALSE) >>,
            !.out = << println(<<"">>) >>,
            !.result = "panic"]

handleCommand(command, args, response, osOk) ==
    LET c == get_command_enum(command) IN
    CASE c = "CD" ->
            LET new_dir == IF args = << >> THEN <<"/">> ELSE args[1]
                root == join(cwd, new_dir)
                r == set_current_dir(root)
            IN IF r.ok
               THEN [Same EXCEPT
                       !.cwd = r.cwd,
                       !.ops = << Op("set_current_dir", root, TRUE) >>]
               ELSE [Same EXCEPT
                       !.ops = << Op("set_current_dir", root, FALSE) >>,
                       !.result = "Err",
                       !.error = <<"cd: {}: {}", new_dir, OsError>>]
      [] c = "LS" ->
            LET piped == args # << >> /\ args[1] = <<"|">>
                rest == IF piped THEN SubSeq(args, 3, Len(args)) ELSE args
            IN IF piped /\ Len(args) >= 2
               THEN IF ~spawn(<<"l", "s">>)
                    THEN [Same EXCEPT !.result = "Err",
                                      !.error = <<"ls not found">>]
                    ELSE IF ~spawn(args[2])
                    THEN [Same EXCEPT !.result = "Err",
                                      !.error = <<"{} not found", args[2]>>]
                    ELSE [Same EXCEPT !.waited = TRUE]
               ELSE commandHandler_print_ls(
                       IF rest = << >> THEN <<".">> ELSE rest[1])
      [] c = "MKDIR" ->
            IF args = << >> THEN [Same EXCEPT !.result = "panic"]
            ELSE LET path == join(cwd, args[1])
                     r == create_dir_all(path, osOk)
                 IN [Same EXCEPT
                       !.dirs = r.dirs,
                       !.ops = << Op("create_dir_all", path, r.ok) >>,
                       !.result = IF r.ok THEN "Ok" ELSE "panic"]
      [] c = "PLUSPLUS" ->
            IF args = << >>
            THEN [Same EXCEPT !.result = "Err",
                              !.error = <<"No file specified">>]
            ELSE LET path == join(cwd, args[1])
                     r == File_create(path, osOk)
                 IN IF r.ok
                    THEN [Same EXCEPT
                            !.files = r.files,
                            !.ops = << Op("File::create", path, TRUE) >>,
                            !.out = << green(<<"File created Successfully!">>) >>]
                    ELSE [Same EXCEPT
                            !.ops = << Op("File::create", path, FALSE) >>,
                            !.result = "Err", !.error = <<OsError>>]
      [] c = "MINUSMINUS" ->
            IF args = << >>
            THEN [Same EXCEPT !.result = "Err",
                              !.error = <<"No file specified">>]
            ELSE LET file_name == args[1]
                     full_path == join(cwd, file_name)
                     question ==
                        red(<<"Are you sure you want to delete {} (yes/no)?\n",
                              file_name>>)
                     r == fs_remove_file(full_path, osOk)
                 IN IF ~exists(full_path)
                    THEN [Same EXCEPT
                            !.out = << red(<<"File not found: {}", file_name>>) >>]
                    ELSE IF ~confirmed(response)
                    THEN [Same EXCEPT
                            !.asked = TRUE, !.read = <<response>>,
                            !.out = << question,
                                       println(<<"Deletion canceled.">>) >>]
                    ELSE IF ~r.ok
                    THEN [Same EXCEPT
                            !.asked = TRUE, !.read = <<response>>,
                            !.ops = << Op("remove_file", full_path, FALSE) >>,
                            !.out = << question >>,
                            !.result = "Err", !.error = <<OsError>>]
                    ELSE [Same EXCEPT
                            !.asked = TRUE, !.read = <<response>>,
                            !.files = r.files,
                            !.ops = << Op("remove_file", full_path, TRUE) >>,
                            !.out = << question,
                                       println(<<"File deleted: {}", file_name>>) >>]
      [] c = "KILL" -> [Same EXCEPT !.result = "exit"]
      [] c = "PWD" -> [Same EXCEPT !.out = << println(<<"{}", cwd>>) >>]
      [] c = "UNKNOWN" ->
            [Same EXCEPT !.result = "Err", !.error = <<"Command not found">>]

(***************************************************************************)
(* The built-ins called through either dispatcher on one filesystem:       *)
(* handleCommand as main.rs calls it (main.rs:98-100 prints the error it   *)
(* returns), execute_command as its signature is called.                   *)
(***************************************************************************)
\* the command lines dispatched: the command token and its arguments
FsCalls ==
    { <<<<"m", "k", "d", "i", "r">>, << >>>>,
      <<<<"m", "k", "d", "i", "r">>, << <<"a", "/", "b", "/", "c">> >>>>,
      <<<<"+", "+">>, << >>>>,
      <<<<"+", "+">>, << <<"f">> >>>>,
      <<<<"-", "-">>, << >>>>,
      <<<<"-", "-">>, << <<"f">> >>>>,
      <<<<"-", "-">>, << HistoryName >>>>,
      <<<<"c", "d">>, << >>>>,
      <<<<"c", "d">>, << <<"/", "h">> >>>>,
      <<<<"c", "d">>, << <<"/", "n">> >>>>,
      <<<<"l", "s">>, << >>>>,
      <<<<"l", "s">>, << <<"n">> >>>>,
      <<<<"l", "s">>, << <<"|">>, <<"w", "c">> >>>>,
      <<<<"l", "s">>, << <<"|">>, <<"n", "o">> >>>>,
      <<<<"d", "i", "r", "c", "o", "n", "t", "e", "n", "t">>, << >>>>,
      <<<<"d", "i", "r", "c", "o", "n", "t", "e", "n", "t">>, << <<"n">> >>>>,
      <<<<"c", "l", "e", "a", "r">>, << >>>>,
      <<<<"c", "u", "s", "t", "o", "m", "i", "z", "e">>, << >>>>,
      <<<<"h", "e", "l", "p">>, << >>>>,
      <<<<"p", "w", "d">>, << >>>>,
      <<<<"k", "i", "l", "l">>, << >>>>,
      <<<<"x">>, << >>>> }

\* the lines read_line may return to the deletion question
Responses ==
    { <<"y", "e", "s", "\n">>, <<" ", "y", "e", "s", " ", "\n">>,
      <<"n", "o", "\n">>, <<"y", "E", "s", "\n">>, <<"\n">>, << >> }

NoCall ==
    [via |-> "none", command |-> << >>, args |-> << >>, result |-> "Ok",
     error |-> << >>, ops |-> << >>, asked |-> FALSE, read |-> << >>,
     waited |-> FALSE, osOk |-> TRUE]

FsInit ==
    /\ dirs = { << >>, HomeDir }
    /\ files = { <<HistoryPath, <<"x", "\n">>>> }
    /\ cwd = HomeDir
    /\ lastCall = NoCall
    /\ config = get_customization_options
    /\ configFile = initialize_config_file
    /\ out = << >>
    /\ lastArgs = << >>
    /\ lastWrite = "none"
    /\ pc = "dispatch"
    /\ lastOp = "none"
    /\ ret = << >>
    /\ commands_list = << >>
    /\ index = 0
    /\ input = EmptyString
    /\ historyFile = << >>
    /\ rawMode = FALSE
    /\ exitCause = "none"
    /\ fault = FALSE

\* The call's effects, and the loop going on unless the process ended.
Called(via, command, args, osOk, r, printed) ==
    /\ pc = "dispatch"
    /\ dirs' = r.dirs
    /\ files' = r.files
    /\ cwd' = r.cwd
    /\ config' = r.config
    /\ configFile' = r.configFile
    /\ out' = printed
    /\ lastCall' = [via |-> via, command |-> command, args |-> args,
                    result |-> r.result, error |-> r.error, ops |-> r.ops,
                    asked |-> r.asked, read |-> r.read, waited |-> r.waited,
                    osOk |-> osOk]
    /\ pc' = IF r.result \in {"panic", "exit"} THEN "exited" ELSE "dispatch"
    /\ exitCause' = CASE r.result = "panic" -> "panic"
                      [] r.result = "exit" -> "kill"
                      [] OTHER -> exitCause
    /\ UNCHANGED <<commands_list, index, input, historyFile, rawMode, lastOp,
                   ret, fault, lastArgs, lastWrite>>

\* main.rs:98-100
HandleCommand(command, args, response, osOk) ==
    LET r == handleCommand(command, args, response, osOk) IN
    Called("handleCommand", command, args, osOk, r,
           IF r.result = "Err" THEN Append(r.out, println(r.error))
           ELSE r.out)

ExecCommand(command, args, response, osOk) ==
    LET r == execute_command(command, args, response, osOk) IN
    Called("execute_command", command, args, osOk, r, r.out)

\* Only the -- arm reads a response, and only mkdir, ++ and -- make a call
\* the operating system may refuse for a path that is in order (clear's
\* removal fails when the history file is missing).
ResponsesRead(call) ==
    IF call[1] = <<"-", "-">> /\ call[2] # << >> THEN Responses ELSE { << >> }

OsOutcomes(call) ==
    IF call[1] \in { <<"m", "k", "d", "i", "r">>, <<"+", "+">>, <<"-", "-">> }
       /\ call[2] # << >>
    THEN BOOLEAN ELSE { TRUE }

FsNext ==
    \E call \in FsCalls :
       \E response \in ResponsesRead(call), osOk \in OsOutcomes(call) :
          \/ HandleCommand(call[1], call[2], response, osOk)
          \/ ExecCommand(call[1], call[2], response, osOk)

SpecFs == FsInit /\ [][FsNext]_vars

(***************************************************************************)
(* C14: mkdir, ++, -- and customize invoked without their argument report  *)
(* an error and return to the loop: the process neither panics nor exits,  *)
(* and the filesystem and the configuration are unchanged.                 *)
(***************************************************************************)
NeedArgument ==
    { <<"m", "k", "d", "i", "r">>, <<"+", "+">>, <<"-", "-">>,
      <<"c", "u", "s", "t", "o", "m", "i", "z", "e">> }

MissingArgumentReported ==
    (/\ pc = "dispatch"
     /\ lastCall'.command \in NeedArgument
     /\ lastCall'.args = << >>)
      => /\ lastCall'.result \in {"Ok", "Err"}
         /\ pc' = "dispatch"
         /\ out' # << >>
         /\ dirs' = dirs /\ files' = files /\ cwd' = cwd
         /\ config' = config /\ configFile' = configFile

C14_MissingArgumentReported == [][MissingArgumentReported]_vars

(***************************************************************************)
(* C15: no command execute_command dispatches, other than kill, ends the   *)
(* process: whatever the filesystem holds, the call returns a result to    *)
(* the loop and the loop goes on.                                          *)
(***************************************************************************)
C15_OnlyKillEndsProcess ==
    (/\ lastCall.via = "execute_command"
     /\ command_handler_get_command_enum(lastCall.command) # "KILL")
      => /\ lastCall.result \in {"Ok", "Err"}
         /\ pc = "dispatch"

(***************************************************************************)
(* C16: `++ name` twice in a row: the first call creates the file, the     *)
(* second creates and truncates nothing, reports an error and no success,  *)
(* and leaves the file as it was.                                          *)
(***************************************************************************)
IsCreate(call) ==
    /\ call.command = <<"+", "+">>
    /\ call.args # << >>

SecondCreateRejected ==
    (/\ pc = "dispatch"
     /\ IsCreate(lastCall) /\ IsCreate(lastCall')
     /\ lastCall'.via = lastCall.via
     /\ lastCall'.args = lastCall.args
     /\ lastCall.ops # << >> /\ lastCall.ops[1].ok /\ ~lastCall.ops[1].found)
      => /\ \A i \in 1..Len(lastCall'.ops) : ~lastCall'.ops[i].ok
         /\ files' = files
         /\ out' # << >>
         /\ \A i \in 1..Len(out') : out'[i].color # "green"

C16_SecondCreateRejected == [][SecondCreateRejected]_vars

(***************************************************************************)
(* C17: `-- name` on an existing file asks for confirmation and removes    *)
(* the file if and only if the response, trimmed, is exactly "yes" (the    *)
(* removal is then called, and the file is gone unless the operating       *)
(* system refuses it); any other response reports "Deletion canceled."     *)
(* and leaves the file; when nothing exists under the name, "File not      *)
(* found" is reported and no confirmation is requested.                    *)
(***************************************************************************)
IsRemove(call) ==
    /\ call.command = <<"-", "-">>
    /\ call.args # << >>

Says(msgs, text) == \E i \in 1..Len(msgs) : msgs[i].text[1] = text

DeletesOnlyOnYes ==
    (pc = "dispatch" /\ IsRemove(lastCall')) =>
        LET target == join(cwd, lastCall'.args[1])
            removal == lastCall'.ops
        IN
        IF is_file(target)
        THEN /\ lastCall'.asked
             /\ lastCall'.read # << >>
             /\ IF trim(lastCall'.read[1]) = <<"y", "e", "s">>
                THEN /\ removal # << >>
                     /\ removal[1].call = "remove_file"
                     /\ removal[1].path = target
                     /\ lastCall'.osOk
                           => files' = {f \in files : f[1] # target}
                     /\ ~lastCall'.osOk => files' = files
                     /\ ~Says(out', "Deletion canceled.")
                ELSE /\ removal = << >>
                     /\ files' = files
                     /\ Says(out', "Deletion canceled.")
        ELSE ~exists(target) =>
                /\ ~lastCall'.asked
                /\ lastCall'.read = << >>
                /\ removal = << >>
                /\ files' = files
                /\ Says(out', "File not found: {}")

C17_DeletesOnlyOnYes == [][DeletesOnlyOnYes]_vars

\* " yes " was answered and the file is gone
C17_Witness ==
    /\ IsRemove(lastCall)
    /\ lastCall.read = << <<" ", "y", "e", "s", " ", "\n">> >>
    /\ lastCall.ops # << >> /\ lastCall.ops[1].ok
    /\ ~is_file(lastCall.ops[1].path)

(***************************************************************************)
(* C18: `mkdir a/b/c` where a does not exist creates a, a/b and a/b/c      *)
(* (unless the operating system refuses); the identical command again      *)
(* changes nothing and reports no error.                                   *)
(***************************************************************************)
IsMkdir(call) ==
    /\ call.command = <<"m", "k", "d", "i", "r">>
    /\ call.args # << >>

MkdirCreatesAllLevels ==
    (pc = "dispatch" /\ IsMkdir(lastCall')) =>
        LET target == join(cwd, lastCall'.args[1]) IN
        /\ (~exists(SubSeq(target, 1, Len(cwd) + 1)) /\ lastCall'.osOk)
              => /\ Prefixes(target) \subseteq dirs'
                 /\ Len(target) = Len(cwd) + 3
                 /\ lastCall'.result = "Ok"
        /\ (/\ IsMkdir(lastCall)
            /\ lastCall.args = lastCall'.args
            /\ lastCall.ops[1].ok)
              => /\ dirs' = dirs
                 /\ files' = files
                 /\ lastCall'.result = "Ok"
                 /\ out' = << >>

IsCd(call) == call.command = <<"c", "d">>

CdErrors == {"Failed to change directory: {}", "cd: {}: {}"}

CdKeepsOrRoots ==
    (pc = "dispatch" /\ IsCd(lastCall')) =>
        /\ (lastCall'.args # << >> /\ ~exists(join(cwd, lastCall'.args[1])))
              => /\ cwd' = cwd
                 /\ \E e \in CdErrors : Says(out', e)
                 /\ pc' = "dispatch"
        /\ lastCall'.args = << >> => cwd' = << >>

IsPipeToMissing(call) ==
    /\ call.command = <<"l", "s">>
    /\ Len(call.args) >= 2
    /\ call.args[1] = <<"|">>
    /\ ~spawn(call.args[2])

C20_MissingPipeTargetReported ==
    IsPipeToMissing(lastCall)
      => /\ Says(out, "{} not found")
         /\ ~lastCall.waited
         /\ pc = "dispatch"

(***************************************************************************)
(* C21: after `clear` (execute_command) on a history file that is there,   *)
(* $HOME/.mysh_history exists and is empty, whatever it contained before.  *)
(***************************************************************************)
IsClear(call) ==
    /\ call.via = "execute_command"
    /\ call.command = <<"c", "l", "e", "a", "r">>

ClearLeavesEmptyHistory ==
    (pc = "dispatch" /\ IsClear(lastCall') /\ is_file(HistoryPath))
      => /\ <<HistoryPath, EmptyString>> \in files'
         /\ \A f \in files' : f[1] = HistoryPath => f[2] = EmptyString
         /\ \A f \in files : f[1] # HistoryPath => f \in files'
         /\ pc' = "dispatch"

C21_ClearLeavesEmptyHistory == [][ClearLeavesEmptyHistory]_vars

\* clear has removed a history file that was there, and an empty one is there
C21_Witness ==
    /\ IsClear(lastCall)
    /\ lastCall.ops # << >>
    /\ lastCall.ops[1].found /\ lastCall.ops[1].ok
    /\ <<HistoryPath, EmptyString>> \in files

(***************************************************************************)
(* C22: after an Up key event the input buffer is the string the history   *)
(* `prev` fetch returned, and after a Down key event it is the string the  *)
(* history `next` fetch returned (empty for an empty result); what the     *)
(* buffer held before is discarded.                                        *)
(***************************************************************************)
BufferIsFetched ==
    /\ (pc = "read" /\ lastOp' = "Up"
          /\ ~get_prev_command(commands_list, index).fault)
          => input' = get_prev_command(commands_list, index).ret
    /\ (pc = "read" /\ lastOp' = "Down"
          /\ ~get_next_command(commands_list, index).fault)
          => input' = get_next_command(commands_list, index).ret

C22_BufferIsFetched == [][BufferIsFetched]_vars

(***************************************************************************)
(* C23: when the dispatcher is about to run a submitted line, and when     *)
(* `kill` has ended the process, that line is the newest entry of the      *)
(* in-memory history and the last line of the history file.                *)
(***************************************************************************)
EndsWith(file, line) ==
    LET record == line \o <<"\n">> IN
    /\ Len(file) >= Len(record)
    /\ SubSeq(file, Len(file) - Len(record) + 1, Len(file)) = record

C23_RecordedBeforeDispatch ==
    (pc = "dispatch" \/ exitCause = "kill")
      => /\ ~TrimIsEmpty(input)
         /\ commands_list # << >>
         /\ commands_list[Len(commands_list)] = input
         /\ EndsWith(historyFile, input)

\* kill has ended the process and is the last line of the history file
C23_Witness ==
    /\ pc = "exited"
    /\ exitCause = "kill"
    /\ input = <<"k", "i", "l", "l">>
    /\ EndsWith(historyFile, <<"k", "i", "l", "l">>)

(***************************************************************************)
(* C24: while the loop runs, the lines of the history file are exactly     *)
(* the entries of the in-memory history, in the same order: read_history   *)
(* of the file gives the in-memory history.                                *)
(***************************************************************************)
C24_FileMirrorsMemory ==
    pc \in {"read", "dispatch"} => read_history(historyFile) = commands_list

FsTypeOK ==
    /\ << >> \in dirs
    /\ cwd \in dirs
    /\ \A f \in files : Parent(f[1]) \in dirs /\ f[1] \notin dirs

====
